---- MODULE Spec2Model ----
(***************************************************************************)
(* Model of the Vagrant driver of molecule-plugins                         *)
(* (src/src/molecule_plugins/vagrant/driver.py).                           *)
(*                                                                         *)
(* The driver holds no mutable state of its own beyond its configuration.  *)
(* What changes is its environment: the instance-config file, written by   *)
(* the provisioning playbook, and the executables on the search path.      *)
(*                                                                         *)
(* A string is modelled as the sequence of its lexical pieces, with the    *)
(* braces and the separating spaces as pieces of their own, so that        *)
(* joining and formatting are computed and not assumed.  A mapping is a    *)
(* function from its keys.  A call either returns (kind "ok"), raises an   *)
(* exception (kind "raise") or ends the process (kind "exit").             *)
(***************************************************************************)
EXTENDS Integers, Sequences, FiniteSets, TLC

-----------------------------------------------------------------------------
(* Bounds of the model *)

\* most records the instance-config file holds
MaxRecords == 2
\* number of distinct field-value combinations a record can carry
NumVariants == 2
\* most entries of the configured ssh_connection_options list
MaxOptions == 2

-----------------------------------------------------------------------------
(* Values *)

Ok(v) == [kind |-> "ok", val |-> v]
Raise(e) == [kind |-> "raise", exc |-> e]
Exit(m) == [kind |-> "exit", exc |-> m]

\* Python's None, and the empty dict {}
None == <<>>
EmptyMap == [k \in {} |-> k]

Min(S) == CHOOSE x \in S : \A y \in S : x <= y
Max(S) == CHOOSE x \in S : \A y \in S : x >= y
Range(s) == {s[i] : i \in DOMAIN s}
SeqsUpTo(S, n) == UNION {[1..k -> S] : k \in 0..n}

\* instance names of the scenario
Names == {"i1", "i2"}

\* field values a record can carry, by variant
Users == <<"vagrant", "root", "admin", "core">>
Addresses == <<"1.2.3.4", "10.0.0.7", "127.0.0.1", "192.168.0.9">>
Ports == <<22, 2222, 2200, 8022>>
IdentityFiles == <<"k", "id_rsa", "private_key", "insecure">>

Record(n, v) ==
    [instance |-> n,
     user |-> <<Users[v]>>,
     address |-> <<Addresses[v]>>,
     port |-> Ports[v],
     identity_file |-> <<"/", IdentityFiles[v]>>]

Records == {Record(n, v) : n \in Names, v \in 1..NumVariants}

\* entries the ssh_connection_options list can hold
Options ==
    { <<"-o", " ", "Foo=bar">>,
      <<"-o", " ", "LogLevel=ERROR">>,
      <<"-o", " ", "ProxyCommand=", "{", "user", "}">>,
      <<"-o", " ", "ControlPath=", "{", "dir", "}">> }

PlainOptions == {o \in Options : "{" \notin Range(o) /\ "}" \notin Range(o)}

EphemeralDirs == { <<"/", "tmp", "/", "molecule", "/", "default">>,
                   <<"/", "home", "/", "u", "/", ".cache", "/", "s1">> }

-----------------------------------------------------------------------------
(* State *)

VARIABLES
    config,       \* the host configuration the driver was constructed with
    disk,         \* the instance-config file: [exists, records]
    executables,  \* names of the executables found on the search path
    lastCall,     \* the most recent driver call: [op, arg, result, read]
    prev,         \* summary of the call before it: [op, arg, kind, read]
    fresh         \* TRUE iff the environment is as lastCall saw it

vars == <<config, disk, executables, lastCall, prev, fresh>>

-----------------------------------------------------------------------------
(* Library functions the driver calls *)

\* os.path.join(a, b)
PathJoin(a, b) ==
    IF b # <<>> /\ b[1] = "/" THEN b
    ELSE IF a = <<>> \/ a[Len(a)] = "/" THEN a \o b
    ELSE a \o <<"/">> \o b

\* sep.join(parts)
RECURSIVE Join(_, _)
Join(parts, sep) ==
    IF parts = <<>> THEN <<>>
    ELSE IF Len(parts) = 1 THEN parts[1]
    ELSE parts[1] \o <<sep>> \o Join(Tail(parts), sep)

\* str(n) for an integer n >= 0, digit by digit
Digits == <<"0", "1", "2", "3", "4", "5", "6", "7", "8", "9">>
RECURSIVE IntToStr(_)
IntToStr(n) ==
    IF n < 10 THEN <<Digits[n + 1]>>
    ELSE IntToStr(n \div 10) \o <<Digits[(n % 10) + 1]>>

\* what str.format substitutes for the field `key`
FormatValue(key, v) == IF key = "port" THEN IntToStr(v) ELSE v

\* template.format(**kw), read from position i on.  "{{" and "}}" are escaped
\* braces, "{name}" is replaced by kw[name]; an unknown name, an unnamed field
\* and an unbalanced brace raise.
RECURSIVE FormatFrom(_, _, _)
FormatFrom(t, i, kw) ==
    IF i > Len(t) THEN Ok(<<>>)
    ELSE IF t[i] = "{" THEN
        IF i < Len(t) /\ t[i + 1] = "{" THEN
            LET rest == FormatFrom(t, i + 2, kw) IN
            IF rest.kind = "ok" THEN Ok(<<"{">> \o rest.val) ELSE rest
        ELSE
            LET close == {j \in (i + 1)..Len(t) : t[j] = "}"} IN
            IF close = {} THEN Raise("ValueError")
            ELSE
                LET j == Min(close)
                    field == SubSeq(t, i + 1, j - 1)
                IN  IF "{" \in Range(field) THEN Raise("ValueError")
                    ELSE IF field = <<>> THEN Raise("IndexError")
                    ELSE IF Len(field) = 1 /\ field[1] \in DOMAIN kw THEN
                        LET rest == FormatFrom(t, j + 1, kw) IN
                        IF rest.kind = "ok"
                        THEN Ok(FormatValue(field[1], kw[field[1]]) \o rest.val)
                        ELSE rest
                    ELSE Raise("KeyError")
    ELSE IF t[i] = "}" THEN
        IF i < Len(t) /\ t[i + 1] = "}" THEN
            LET rest == FormatFrom(t, i + 2, kw) IN
            IF rest.kind = "ok" THEN Ok(<<"}">> \o rest.val) ELSE rest
        ELSE Raise("ValueError")
    ELSE
        LET rest == FormatFrom(t, i + 1, kw) IN
        IF rest.kind = "ok" THEN Ok(<<t[i]>> \o rest.val) ELSE rest

Format(t, kw) == FormatFrom(t, 1, kw)

\* util.merge_dicts(a, b): the values of b merged into a
merge_dicts(a, b) ==
    [k \in (DOMAIN a) \cup (DOMAIN b) |-> IF k \in DOMAIN b THEN b[k] ELSE a[k]]

\* shutil.which(cmd): the path of the executable, or None
which(cmd) ==
    IF cmd \in executables THEN <<"/", "usr", "/", "bin", "/", cmd>> ELSE None

\* util.safe_load_file(filename): the parsed file; OSError when it is not on disk.
\* The provisioning playbook writes the file at config.driver.instance_config.
safe_load_file(filename) ==
    IF filename = config.driver.instance_config /\ disk.exists
    THEN Ok(disk.records)
    ELSE Raise("OSError")

-----------------------------------------------------------------------------
(* The driver *)

\* the configuration object handed to __init__
Config(dir, options) ==
    [scenario |-> [ephemeral_directory |-> dir],
     driver |-> [instance_config |-> PathJoin(dir, <<"instance_config.yml">>)],
     ssh_connection_options |-> options,
     provisioner |->
        [inventory_file |-> PathJoin(dir, <<"inventory", "/", "ansible_inventory.yml">>)]]

\* self.ssh_connection_options, as configured
ssh_connection_options == config.ssh_connection_options

\* self.instance_config, the inherited property
instance_config ==
    PathJoin(config.scenario.ephemeral_directory, <<"instance_config.yml">>)

testinfra_options ==
    ("connection" :> <<"ansible">>)
        @@ ("ansible-inventory" :> config.provisioner.inventory_file)

login_cmd_template ==
    LET connection_options == Join(ssh_connection_options, " ") IN
    <<"ssh", " ", "{", "address", "}", " ",
      "-l", " ", "{", "user", "}", " ",
      "-p", " ", "{", "port", "}", " ",
      "-i", " ", "{", "identity_file", "}", " ">> \o connection_options

vagrantfile == PathJoin(config.scenario.ephemeral_directory, <<"Vagrantfile">>)

\* default_safe_files with the instance-config path left out
default_safe_files_without_instance_config ==
    << vagrantfile,
       PathJoin(config.scenario.ephemeral_directory, <<".vagrant">>),
       PathJoin(config.scenario.ephemeral_directory, <<"vagrant-*.out">>),
       PathJoin(config.scenario.ephemeral_directory, <<"vagrant-*.err">>) >>

default_safe_files ==
    << vagrantfile,
       instance_config,
       PathJoin(config.scenario.ephemeral_directory, <<".vagrant">>),
       PathJoin(config.scenario.ephemeral_directory, <<"vagrant-*.out">>),
       PathJoin(config.scenario.ephemeral_directory, <<"vagrant-*.err">>) >>

\* _get_instance_config taking the last matching record
_get_instance_config_last(instance_name) ==
    LET instance_config_dict == safe_load_file(config.driver.instance_config) IN
    IF instance_config_dict.kind = "raise" THEN instance_config_dict
    ELSE
        LET items == instance_config_dict.val
            matching == {i \in DOMAIN items : items[i].instance = instance_name}
        IN  IF matching = {} THEN Raise("StopIteration")
            ELSE Ok(items[Max(matching)])

\* _get_instance_config remembering a failed lookup of the same instance
_get_instance_config_cached(instance_name) ==
    IF /\ lastCall.op = "login_options"
       /\ lastCall.arg = instance_name
       /\ lastCall.result.kind = "raise"
    THEN lastCall.result
    ELSE
        LET instance_config_dict == safe_load_file(config.driver.instance_config) IN
        IF instance_config_dict.kind = "raise" THEN instance_config_dict
        ELSE
            LET items == instance_config_dict.val
                matching == {i \in DOMAIN items : items[i].instance = instance_name}
            IN  IF matching = {} THEN Raise("StopIteration")
                ELSE Ok(items[Min(matching)])

_get_instance_config(instance_name) ==
    LET instance_config_dict == safe_load_file(config.driver.instance_config) IN
    IF instance_config_dict.kind = "raise" THEN instance_config_dict
    ELSE
        LET items == instance_config_dict.val
            matching == {i \in DOMAIN items : items[i].instance = instance_name}
        IN  IF matching = {} THEN Raise("StopIteration")
            ELSE Ok(items[Min(matching)])

\* login_options guarded the way ansible_connection_options is
login_options_guarded(instance_name) ==
    LET d == [instance |-> instance_name]
        c == _get_instance_config(instance_name)
    IN  IF c.kind = "raise" THEN Ok(EmptyMap) ELSE Ok(merge_dicts(d, c.val))

\* login_options returning d without the record merged in
login_options_unmerged(instance_name) ==
    LET d == [instance |-> instance_name]
        c == _get_instance_config(instance_name)
    IN  IF c.kind = "raise" THEN c ELSE Ok(d)

login_options(instance_name) ==
    LET d == [instance |-> instance_name]
        c == _get_instance_config(instance_name)
    IN  IF c.kind = "raise" THEN c ELSE Ok(merge_dicts(d, c.val))

\* ansible_connection_options with user and address exchanged
ansible_connection_options_swapped(instance_name) ==
    LET r == _get_instance_config(instance_name) IN
    IF r.kind = "raise" THEN
        IF r.exc = "StopIteration" THEN Ok(EmptyMap)
        ELSE IF r.exc = "OSError" THEN Ok(EmptyMap)
        ELSE r
    ELSE
        LET d == r.val IN
        Ok([ansible_user |-> d.address,
            ansible_host |-> d.user,
            ansible_port |-> d.port,
            ansible_private_key_file |-> d.identity_file,
            connection |-> <<"ssh">>,
            ansible_ssh_common_args |-> Join(ssh_connection_options, " ")])

\* ansible_connection_options without the OSError handler
ansible_connection_options_no_oserror(instance_name) ==
    LET r == _get_instance_config(instance_name) IN
    IF r.kind = "raise" THEN
        IF r.exc = "StopIteration" THEN Ok(EmptyMap)
        ELSE r
    ELSE
        LET d == r.val IN
        Ok([ansible_user |-> d.user,
            ansible_host |-> d.address,
            ansible_port |-> d.port,
            ansible_private_key_file |-> d.identity_file,
            connection |-> <<"ssh">>,
            ansible_ssh_common_args |-> Join(ssh_connection_options, " ")])

ansible_connection_options(instance_name) ==
    LET r == _get_instance_config(instance_name) IN
    IF r.kind = "raise" THEN
        IF r.exc = "StopIteration" THEN Ok(EmptyMap)
        ELSE IF r.exc = "OSError" THEN Ok(EmptyMap)
        ELSE r
    ELSE
        LET d == r.val IN
        Ok([ansible_user |-> d.user,
            ansible_host |-> d.address,
            ansible_port |-> d.port,
            ansible_private_key_file |-> d.identity_file,
            connection |-> <<"ssh">>,
            ansible_ssh_common_args |-> Join(ssh_connection_options, " ")])

\* sanity_checks that never looks for the executable
sanity_checks_unchecked == Ok(None)

sanity_checks ==
    IF which("vagrant") = None
    THEN Exit("vagrant executable was not found!")
    ELSE Ok(None)

-----------------------------------------------------------------------------
(* Calls of the driver's operations.  Each records what it returned in      *)
(* lastCall and moves the summary of the call before it to prev.            *)

LookupOps == {"login_options", "ansible_connection_options"}

Summary(c) ==
    [op |-> c.op,
     arg |-> IF c.op \in LookupOps THEN c.arg ELSE "",
     kind |-> IF c.op \in LookupOps /\ c.result.kind = "ok"
              THEN (IF DOMAIN c.result.val = {} THEN "empty" ELSE "found")
              ELSE c.result.kind,
     read |-> c.read]

Returned(op, arg, result, read) ==
    /\ lastCall' = [op |-> op, arg |-> arg, result |-> result, read |-> read]
    /\ prev' = Summary(lastCall)
    /\ fresh' = TRUE

TestinfraOptions ==
    /\ Returned("testinfra_options", "", Ok(testinfra_options), <<>>)
    /\ UNCHANGED <<config, disk, executables>>

LoginCmdTemplate ==
    /\ Returned("login_cmd_template", "", Ok(login_cmd_template), <<>>)
    /\ UNCHANGED <<config, disk, executables>>

DefaultSafeFiles ==
    /\ Returned("default_safe_files", "", Ok(default_safe_files), <<>>)
    /\ UNCHANGED <<config, disk, executables>>

Vagrantfile ==
    /\ Returned("vagrantfile", "", Ok(vagrantfile), <<>>)
    /\ UNCHANGED <<config, disk, executables>>

LoginOptions(instance_name) ==
    /\ Returned("login_options", instance_name, login_options(instance_name),
                config.driver.instance_config)
    /\ UNCHANGED <<config, disk, executables>>

\* ansible_connection_options creating the file it did not find
AnsibleConnectionOptionsTouch(instance_name) ==
    /\ Returned("ansible_connection_options", instance_name,
                ansible_connection_options(instance_name),
                config.driver.instance_config)
    /\ disk' = IF disk.exists THEN disk ELSE [exists |-> TRUE, records |-> <<>>]
    /\ UNCHANGED <<config, executables>>

AnsibleConnectionOptions(instance_name) ==
    /\ Returned("ansible_connection_options", instance_name,
                ansible_connection_options(instance_name),
                config.driver.instance_config)
    /\ UNCHANGED <<config, disk, executables>>

SanityChecks ==
    /\ Returned("sanity_checks", "", sanity_checks, <<>>)
    /\ UNCHANGED <<config, disk, executables>>

\* the host's login command: login_cmd_template.format(**login_options)
FormatLoginCmd(kw) ==
    /\ Returned("format", kw, Format(login_cmd_template, kw), <<>>)
    /\ UNCHANGED <<config, disk, executables>>

-----------------------------------------------------------------------------
(* The environment: the provisioning playbook writes the instance-config    *)
(* file, and executables come and go on the search path.                    *)

Changed ==
    /\ fresh' = FALSE
    /\ UNCHANGED <<config, lastCall, prev>>

ExtCreateFile ==
    /\ ~disk.exists
    /\ disk' = [exists |-> TRUE, records |-> <<>>]
    /\ Changed
    /\ UNCHANGED executables

ExtAddRecord(r) ==
    /\ disk.exists
    /\ Len(disk.records) < MaxRecords
    /\ disk' = [disk EXCEPT !.records = Append(@, r)]
    /\ Changed
    /\ UNCHANGED executables

ExtChangeRecord(i, r) ==
    /\ disk.exists
    /\ i \in DOMAIN disk.records
    /\ disk.records[i] # r
    /\ disk' = [disk EXCEPT !.records[i] = r]
    /\ Changed
    /\ UNCHANGED executables

ExtRemoveRecord(i) ==
    /\ disk.exists
    /\ i \in DOMAIN disk.records
    /\ disk' = [disk EXCEPT !.records =
                    SubSeq(@, 1, i - 1) \o SubSeq(@, i + 1, Len(@))]
    /\ Changed
    /\ UNCHANGED executables

ExtDeleteFile ==
    /\ disk.exists
    /\ disk' = [exists |-> FALSE, records |-> <<>>]
    /\ Changed
    /\ UNCHANGED executables

ExtInstall(cmd) ==
    /\ cmd \notin executables
    /\ executables' = executables \cup {cmd}
    /\ Changed
    /\ UNCHANGED disk

ExtUninstall(cmd) ==
    /\ cmd \in executables
    /\ executables' = executables \ {cmd}
    /\ Changed
    /\ UNCHANGED disk

-----------------------------------------------------------------------------
(* Specifications *)

Constructed ==
    /\ lastCall = [op |-> "__init__", arg |-> "", result |-> Ok(None), read |-> <<>>]
    /\ prev = [op |-> "none", arg |-> "", kind |-> "none", read |-> <<>>]
    /\ fresh = TRUE

\* One scenario: a fixed configuration, a changing environment.
Init ==
    /\ config = Config(<<"/", "tmp", "/", "molecule", "/", "default">>,
                       << <<"-o", " ", "Foo=bar">>, <<"-o", " ", "LogLevel=ERROR">> >>)
    /\ disk = [exists |-> FALSE, records |-> <<>>]
    /\ executables \in SUBSET {"vagrant"}
    /\ Constructed

Next ==
    \/ TestinfraOptions
    \/ LoginCmdTemplate
    \/ DefaultSafeFiles
    \/ Vagrantfile
    \/ SanityChecks
    \/ \E n \in Names : LoginOptions(n)
    \/ \E n \in Names : AnsibleConnectionOptions(n)
    \/ ExtCreateFile
    \/ \E r \in Records : ExtAddRecord(r)
    \/ \E i \in 1..MaxRecords, r \in Records : ExtChangeRecord(i, r)
    \/ \E i \in 1..MaxRecords : ExtRemoveRecord(i)
    \/ ExtDeleteFile
    \/ ExtInstall("vagrant")
    \/ ExtUninstall("vagrant")

Spec == Init /\ [][Next]_vars

\* Every configuration: the operations that compute from the configuration,
\* over a fixed environment.
InitConfig ==
    /\ config \in {Config(d, o) : d \in EphemeralDirs, o \in SeqsUpTo(Options, MaxOptions)}
    /\ disk \in { [exists |-> FALSE, records |-> <<>>],
                  [exists |-> TRUE, records |-> <<Record("i1", 1)>>] }
    /\ executables = {"vagrant"}
    /\ Constructed

NextConfig ==
    \/ TestinfraOptions
    \/ LoginCmdTemplate
    \/ DefaultSafeFiles
    \/ Vagrantfile
    \/ \E n \in Names : LoginOptions(n)
    \/ \E n \in Names : AnsibleConnectionOptions(n)
    \/ \E r \in Records : FormatLoginCmd(r)

SpecConfig == InitConfig /\ [][NextConfig]_vars

-----------------------------------------------------------------------------
(* Properties *)

\* the file holds a record for instance n
HasRecord(n) ==
    disk.exists /\ \E i \in DOMAIN disk.records : disk.records[i].instance = n

\* the records of the file for instance n
RecordsFor(n) == {r \in Range(disk.records) : r.instance = n}

FixedKeys ==
    {"ansible_user", "ansible_host", "ansible_port", "ansible_private_key_file",
     "connection"}

RecordKeys == {"instance", "user", "address", "port", "identity_file"}

\* m holds the four connection values of record r and connection "ssh"
CopiedFrom(m, r) ==
    /\ m["ansible_user"] = r.user
    /\ m["ansible_host"] = r.address
    /\ m["ansible_port"] = r.port
    /\ m["ansible_private_key_file"] = r.identity_file
    /\ m["connection"] = <<"ssh">>

Answered(op) == fresh /\ lastCall.op = op

(* C1, as stated: for an instance with a record, ansible_connection_options
   returns a mapping with exactly the five fixed keys, the first four copied
   from the record and connection equal to "ssh". *)
C1_ExactlyFiveKeys ==
    (Answered("ansible_connection_options") /\ HasRecord(lastCall.arg)) =>
        /\ lastCall.result.kind = "ok"
        /\ DOMAIN lastCall.result.val = FixedKeys
        /\ \E r \in RecordsFor(lastCall.arg) : CopiedFrom(lastCall.result.val, r)

(* C1, amended: for an instance with a record, ansible_connection_options
   returns a mapping with exactly six keys: the five fixed keys, the first four
   copied from the record and connection equal to "ssh", and
   ansible_ssh_common_args, the configured SSH options joined by single
   spaces. *)
C1_SixKeys ==
    (Answered("ansible_connection_options") /\ HasRecord(lastCall.arg)) =>
        /\ lastCall.result.kind = "ok"
        /\ DOMAIN lastCall.result.val = FixedKeys \cup {"ansible_ssh_common_args"}
        /\ \E r \in RecordsFor(lastCall.arg) : CopiedFrom(lastCall.result.val, r)
        /\ lastCall.result.val["ansible_ssh_common_args"] =
              <<"-o", " ", "Foo=bar", " ", "-o", " ", "LogLevel=ERROR">>

C1_Witness ==
    /\ Answered("ansible_connection_options")
    /\ HasRecord(lastCall.arg)
    /\ lastCall.result.kind = "ok"
    /\ "ansible_host" \in DOMAIN lastCall.result.val

(* C2: ansible_connection_options returns an empty mapping, and does not
   fail, when the file is not on disk and when the file holds no record for
   the instance. *)
C2_EmptyWhenNotReady ==
    (Answered("ansible_connection_options") /\ ~HasRecord(lastCall.arg)) =>
        /\ lastCall.result.kind = "ok"
        /\ DOMAIN lastCall.result.val = {}

C2_Witness ==
    /\ Answered("ansible_connection_options")
    /\ disk.exists
    /\ disk.records # <<>>
    /\ ~HasRecord(lastCall.arg)
    /\ prev.op = "ansible_connection_options"
    /\ prev.kind = "empty"

(* C3: login_options fails when the file is not on disk (OSError) or holds no
   record for the instance (StopIteration); it returns nothing then. *)
C3_LoginOptionsFails ==
    (Answered("login_options") /\ ~HasRecord(lastCall.arg)) =>
        /\ lastCall.result.kind = "raise"
        /\ lastCall.result.exc = (IF disk.exists THEN "StopIteration" ELSE "OSError")

C3_Witness ==
    /\ Answered("login_options")
    /\ disk.exists
    /\ disk.records # <<>>
    /\ ~HasRecord(lastCall.arg)
    /\ lastCall.result.kind = "raise"

(* C4: for an instance with a record, login_options returns the record
   merged with the instance name: every field of the record unchanged, and
   instance equal to the name asked for. *)
C4_LoginOptionsMerged ==
    (Answered("login_options") /\ HasRecord(lastCall.arg)) =>
        /\ lastCall.result.kind = "ok"
        /\ DOMAIN lastCall.result.val = RecordKeys
        /\ lastCall.result.val["instance"] = lastCall.arg
        /\ \E r \in RecordsFor(lastCall.arg) :
              \A k \in {"user", "address", "port", "identity_file"} :
                  lastCall.result.val[k] = r[k]

C4_Witness ==
    /\ Answered("login_options")
    /\ HasRecord(lastCall.arg)
    /\ lastCall.result.kind = "ok"
    /\ "user" \in DOMAIN lastCall.result.val

(* C5: in every configuration the list default_safe_files returns holds
   <ephemeral_directory>/Vagrantfile and the path the lookups read the
   instance-config file from. *)
C5_SafeFilesHoldBothPaths ==
    lastCall.op = "default_safe_files" =>
        /\ (config.scenario.ephemeral_directory \o <<"/", "Vagrantfile">>)
              \in Range(lastCall.result.val)
        /\ (prev.op \in LookupOps => prev.read \in Range(lastCall.result.val))

C5_Witness ==
    /\ lastCall.op = "default_safe_files"
    /\ prev.op \in LookupOps
    /\ prev.kind = "found"
    /\ config.scenario.ephemeral_directory # <<"/", "tmp", "/", "molecule", "/", "default">>

(* C6: sanity_checks ends the process with a message exactly when the vagrant
   executable is not on the search path, and returns normally exactly when it
   is. *)
C6_SanityGate ==
    Answered("sanity_checks") =>
        /\ ("vagrant" \notin executables) =>
              (lastCall.result.kind = "exit" /\ lastCall.result.exc # "")
        /\ ("vagrant" \in executables) => lastCall.result.kind = "ok"

C6_Witness ==
    /\ Answered("sanity_checks")
    /\ "vagrant" \notin executables
    /\ lastCall.result.kind = "exit"
    /\ prev.op = "sanity_checks"
    /\ prev.kind = "ok"

\* least position from i on at which sub occurs in s, 0 if there is none
FindFrom(s, sub, i) ==
    LET at == {k \in i..(Len(s) - Len(sub) + 1) : SubSeq(s, k, k + Len(sub) - 1) = sub}
    IN  IF at = {} THEN 0 ELSE Min(at)

\* the parts occur in s one after the other, from position i on
RECURSIVE InOrderFrom(_, _, _)
InOrderFrom(s, parts, i) ==
    IF parts = <<>> THEN TRUE
    ELSE LET k == FindFrom(s, parts[1], i) IN
         k # 0 /\ InOrderFrom(s, Tail(parts), k + Len(parts[1]))

(* C7: login_cmd_template formatted with address, user, port and
   identity_file yields a command holding, in this order, the address, the
   user, the port, the identity file and the literal text of the configured
   SSH options joined by single spaces. *)
C7_FormattedCommand ==
    lastCall.op = "format" =>
        /\ lastCall.result.kind = "ok"
        /\ InOrderFrom(lastCall.result.val,
                       << <<"ssh">>,
                          lastCall.arg.address,
                          lastCall.arg.user,
                          IntToStr(lastCall.arg.port),
                          lastCall.arg.identity_file,
                          Join(config.ssh_connection_options, " ") >>,
                       1)

\* the same, for options that hold no brace
FormattedCommandOfPlainOptions ==
    (lastCall.op = "format" /\ Range(config.ssh_connection_options) \subseteq PlainOptions) =>
        /\ lastCall.result.kind = "ok"
        /\ lastCall.result.val =
              <<"ssh", " ">> \o lastCall.arg.address
              \o <<" ", "-l", " ">> \o lastCall.arg.user
              \o <<" ", "-p", " ">> \o IntToStr(lastCall.arg.port)
              \o <<" ", "-i", " ">> \o lastCall.arg.identity_file
              \o <<" ">> \o Join(config.ssh_connection_options, " ")

(* C8: when the file holds several records for one instance, login_options
   and ansible_connection_options answer from the first of them in file
   order. *)
C8_FirstMatch ==
    (fresh /\ lastCall.op \in LookupOps /\ HasRecord(lastCall.arg)) =>
        \A i \in DOMAIN disk.records :
            (/\ disk.records[i].instance = lastCall.arg
             /\ \A j \in 1..(i - 1) : disk.records[j].instance # lastCall.arg)
            => /\ lastCall.result.kind = "ok"
               /\ IF lastCall.op = "login_options"
                  THEN \A k \in {"user", "address", "port", "identity_file"} :
                          lastCall.result.val[k] = disk.records[i][k]
                  ELSE CopiedFrom(lastCall.result.val, disk.records[i])

C8_Witness ==
    /\ fresh
    /\ lastCall.op \in LookupOps
    /\ Len(disk.records) >= 2
    /\ disk.records[1].instance = lastCall.arg
    /\ disk.records[2].instance = lastCall.arg
    /\ disk.records[1] # disk.records[2]
    /\ lastCall.result.kind = "ok"

\* the answer of the last lookup carries the values of one of the file's
\* records for the instance
AnswersFromFile ==
    /\ lastCall.result.kind = "ok"
    /\ DOMAIN lastCall.result.val # {}
    /\ \E r \in RecordsFor(lastCall.arg) :
          IF lastCall.op = "login_options"
          THEN \A k \in {"user", "address", "port", "identity_file"} :
                  lastCall.result.val[k] = r[k]
          ELSE CopiedFrom(lastCall.result.val, r)

\* the answer of the last lookup carries no record
AnswersNothing ==
    \/ lastCall.result.kind = "raise"
    \/ lastCall.result.kind = "ok" /\ DOMAIN lastCall.result.val = {}

(* C9: nothing is cached.  A lookup made once the record of an instance is in
   the file returns that record's values even if the lookup before it, of the
   same operation and instance, returned empty or failed; a lookup made once
   the record is gone no longer returns it even if the one before found it. *)
C9_NoCaching ==
    (/\ fresh
     /\ lastCall.op \in LookupOps
     /\ prev.op = lastCall.op
     /\ prev.arg = lastCall.arg) =>
        /\ (prev.kind \in {"empty", "raise"} /\ HasRecord(lastCall.arg)) => AnswersFromFile
        /\ (prev.kind = "found" /\ ~HasRecord(lastCall.arg)) => AnswersNothing

C9_Witness ==
    /\ fresh
    /\ lastCall.op = "login_options"
    /\ prev.op = lastCall.op
    /\ prev.arg = lastCall.arg
    /\ prev.kind = "raise"
    /\ HasRecord(lastCall.arg)
    /\ lastCall.result.kind = "ok"

(* C10: no operation of the driver creates, modifies or deletes the
   instance-config file: a step in which an operation returns, fails or exits
   leaves the file's existence and its records as they were. *)
C10_FileUntouched ==
    [][fresh' => disk' = disk]_vars

C10_Witness ==
    /\ Answered("login_options")
    /\ lastCall.result.kind = "raise"
    /\ disk.exists
    /\ disk.records # <<>>
    /\ prev.op = "ansible_connection_options"
    /\ prev.kind = "empty"

====
